---- MODULE Spec2Model ----
(***************************************************************************)
(* The defi store (frontend/app/src/store/defi/index.ts): the overview     *)
(* fetch, the fetch-all orchestration, resetDB, resetState, reset and the  *)
(* premium watcher, as a state machine.  One action is one run of a        *)
(* handler between two suspension points (await) of the event loop.  The   *)
(* computed values overview and defiAccounts are operators over the state  *)
(* they read, and a read of one of them is an action.                      *)
(***************************************************************************)
EXTENDS Integers, Sequences, FiniteSets, Bags, TLC

\* ------------------------------------------------------------------ bounds
\* Invocations of fetchDefiBalances and fetchAllDefi that may be suspended at
\* the same time (a fetchAllDefi awaiting its fetchDefiBalances counts as two).
MaxFetchRuns == 3
\* Invocations of resetDB that may be suspended at the same time.
MaxResetRuns == 1

\* ------------------------------------------------------------- vocabulary
\* Section / Status (types/status): the sections this store writes.
StoreSections == {"DEFI_OVERVIEW", "DEFI_BALANCES", "DEFI_LENDING_HISTORY"}
Statuses == {"NOT_LOADED", "LOADING", "PARTIALLY_LOADED", "REFRESHING", "LOADED"}

\* The section useStatusUpdater is created with.
defaultSection == "DEFI_OVERVIEW"

\* The keys of `modules`, in the order the object literal inserts them.
modules ==
  << [module |-> "MAKERDAO_DSR",    fn |-> "makerDaoStore.reset",  arg |-> "MAKERDAO_DSR"],
     [module |-> "MAKERDAO_VAULTS", fn |-> "makerDaoStore.reset",  arg |-> "MAKERDAO_VAULTS"],
     [module |-> "AAVE",            fn |-> "aaveStore.reset",      arg |-> ""],
     [module |-> "COMPOUND",        fn |-> "compoundStore.reset",  arg |-> ""],
     [module |-> "YEARN",           fn |-> "yearnStore.reset",     arg |-> "V1"],
     [module |-> "YEARN_V2",        fn |-> "yearnStore.reset",     arg |-> "V2"],
     [module |-> "UNISWAP",         fn |-> "uniswapStore.reset",   arg |-> ""],
     [module |-> "SUSHISWAP",       fn |-> "sushiswapStore.reset", arg |-> ""],
     [module |-> "BALANCER",        fn |-> "balancerStore.reset",  arg |-> ""],
     [module |-> "LIQUITY",         fn |-> "liquityStore.reset",   arg |-> ""] >>

ModuleNames == {modules[i].module : i \in 1..Len(modules)}

ALL_MODULES == "ALL_MODULES"
ALL_DECENTRALIZED_EXCHANGES == "ALL_DECENTRALIZED_EXCHANGES"

\* What resetState may be handed: a registered module, one of the two groups,
\* or a Module value that `modules` has no entry for.
ResetStateParams ==
  ModuleNames \cup {ALL_MODULES, ALL_DECENTRALIZED_EXCHANGES, "ETH2"}

\* DefiProtocol values resetDB may be handed (three it looks for, two it ignores).
ResetDBProtocols == {"YEARN_VAULTS", "YEARN_VAULTS_V2", "AAVE", "COMPOUND", "MAKERDAO_DSR"}

\* The adapter fetches fetchAllDefi hands to Promise.allSettled, in order.
AdapterFetches ==
  << [fn |-> "aaveStore.fetchBalances",           arg |-> ""],
     [fn |-> "makerDaoStore.fetchDSRBalances",    arg |-> ""],
     [fn |-> "makerDaoStore.fetchMakerDAOVaults", arg |-> ""],
     [fn |-> "compoundStore.fetchBalances",       arg |-> ""],
     [fn |-> "yearnStore.fetchBalances",          arg |-> "V1"],
     [fn |-> "yearnStore.fetchBalances",          arg |-> "V2"],
     [fn |-> "liquityStore.fetchBalances",        arg |-> ""] >>

AdapterIds == 1..Len(AdapterFetches)

\* The sets of adapter fetches that reject, as tried: none, the first alone,
\* all but the last, and all of them.
RejectedAdapters ==
  {{}, {1}, AdapterIds \ {Len(AdapterFetches)}, AdapterIds}

\* ------------------------------------------------------------ the payload
\* AllDefiProtocols: address -> sequence of ProtocolBalanceEntry.
Entry(protocol, tokenAddress, tokenName, tokenSymbol, amount, usdValue, balanceType) ==
  [protocol |-> protocol, tokenAddress |-> tokenAddress, tokenName |-> tokenName,
   tokenSymbol |-> tokenSymbol, amount |-> amount, usdValue |-> usdValue,
   balanceType |-> balanceType]

EmptyProtocols == [a \in {} |-> <<>>]

PayloadOne ==
  [a \in {"0xabc"} |-> << Entry("Curve", "0xT", "Dai", "DAI", 100, 100, "Asset") >>]

\* A task result that is not an AllDefiProtocols: a balanceType outside the enum.
PayloadMalformed ==
  [a \in {"0xabc"} |-> << Entry("Curve", "0xT", "Dai", "DAI", 100, 100, "Debt") >>]

\* What the task system may resolve the overview task with.
TaskResults == {EmptyProtocols, PayloadOne, PayloadMalformed}

\* AllDefiProtocols schema: every entry's balanceType is Asset or Liability.
IsAllDefiProtocols(raw) ==
  \A a \in DOMAIN raw : \A i \in 1..Len(raw[a]) :
     raw[a][i].balanceType \in {"Asset", "Liability"}

ValidationError == "invalid balanceType"

\* AllDefiProtocols.parse: the payload, or a thrown validation error.
ParseAllDefiProtocols(raw) ==
  IF IsAllDefiProtocols(raw)
    THEN [ok |-> TRUE, value |-> raw, error |-> ""]
    ELSE [ok |-> FALSE, value |-> EmptyProtocols, error |-> ValidationError]

\* Errors the API call and the task may reject with (e.message).
SubmitErrors == {"request failed"}
TaskErrors == {"task failed"}

\* How `await fetchAllDefiCaller()` may settle: a task id, or a rejection.
SubmitOutcomes ==
  {[ok |-> TRUE, error |-> ""]} \cup {[ok |-> FALSE, error |-> e] : e \in SubmitErrors}

\* How `await awaitTask(...)` may settle: a result, or a rejection.
TaskOutcomes ==
  {[ok |-> TRUE, result |-> r, error |-> ""] : r \in TaskResults}
  \cup {[ok |-> FALSE, result |-> EmptyProtocols, error |-> e] : e \in TaskErrors}

\* ------------------------------------------- what overview and defiAccounts read
\* The entries of one payload fold into at most this many, over its addresses.
MaxEntries == 3

\* Zero (utils/bignumbers): amounts are exact decimals, here whole numbers.
Zero == 0

\* OverviewDefiProtocol names (types/defi/protocols), as an entry carries them.
AAVE == "Aave"
COMPOUND == "Compound"
YEARN_FINANCE_VAULTS == "yearn.finance Vaults"
YEARN_FINANCE_VAULTS_V2 == "yearn.finance Vaults V2"
LIQUITY == "Liquity"
MAKERDAO_DSR == "MakerDAO DSR"
MAKERDAO_VAULTS == "MakerDAO Vaults"

\* The protocol names that occur, in the order string comparison puts them.
ProtocolNames ==
  << AAVE, COMPOUND, "Curve", LIQUITY, MAKERDAO_DSR, MAKERDAO_VAULTS,
     YEARN_FINANCE_VAULTS, YEARN_FINANCE_VAULTS_V2 >>

\* t('defi_overview.multiple_assets')
multiple_assets == "Multiple assets"

\* The sections protocolSummary is asked about, next to the default one.
AdapterSections ==
  {"DEFI_AAVE_BALANCES", "DEFI_COMPOUND_BALANCES", "DEFI_YEARN_VAULTS_BALANCES",
   "DEFI_LIQUITY_BALANCES", "DEFI_YEARN_VAULTS_V2_BALANCES"}

\* The DefiProtocol values the lending totals are asked for.
LendingProtocols ==
  {"AAVE", "COMPOUND", "YEARN_VAULTS", "LIQUITY", "MAKERDAO_DSR", "MAKERDAO_VAULTS",
   "YEARN_VAULTS_V2"}

\* loanSummary([p]) and totalLendingDeposit([p], []) of one protocol.
Totals(collateral, debt, deposit) ==
  [totalCollateralUsd |-> collateral, totalDebt |-> debt, totalLendingDeposit |-> deposit]

NoLending == [p \in LendingProtocols |-> Totals(Zero, Zero, Zero)]

\* The lending totals as tried: none, and one total of one protocol above zero.
LendingStates ==
  { NoLending,
    [NoLending EXCEPT !["AAVE"] = Totals(Zero, Zero, 40)],
    [NoLending EXCEPT !["MAKERDAO_VAULTS"] = Totals(70, 20, Zero)],
    [NoLending EXCEPT !["YEARN_VAULTS_V2"] = Totals(Zero, Zero, 9)] }

\* The entries a payload is made of: a generic protocol with two tokens (one of
\* them without a price, one as a liability) and a protocol with a summarizer.
EntryPool ==
  { Entry("Curve", "0xA", "Dai", "DAI", 10, 100, "Asset"),
    Entry("Curve", "0xA", "Dai", "DAI", 5, 50, "Asset"),
    Entry("Curve", "0xB", "USD Coin", "USDC", 7, 0, "Asset"),
    Entry("Curve", "0xB", "USD Coin", "USDC", 3, 30, "Liability"),
    Entry(AAVE, "0xT", "Dai", "DAI", 100, 100, "Asset") }

\* The addresses of a payload, in the order the payload lists them.
AddressOrder == << "0xabc", "0xdef" >>

EntrySeqs == UNION {[1..n -> EntryPool] : n \in 0..MaxEntries}

\* A payload: the entries under the first address, or the first entry under
\* the first address and the others under the second.
Payloads ==
  {[a \in {AddressOrder[1]} |-> es] : es \in EntrySeqs}
  \cup {[a \in {AddressOrder[1], AddressOrder[2]} |->
           IF a = AddressOrder[1] THEN SubSeq(es, 1, 1) ELSE SubSeq(es, 2, Len(es))]
          : es \in {s \in EntrySeqs : Len(s) >= 2}}

\* The DefiProtocol values defiAccounts gathers addresses for.
AccountProtocols == {"MAKERDAO_DSR", "AAVE", "COMPOUND", "YEARN_VAULTS", "YEARN_VAULTS_V2"}

\* What one adapter holds: the keys of its balances and the addresses of its
\* history (the keys of a mapping, or the addresses of a list of events).
Held(balances, history) == [balances |-> balances, history |-> history]

NoAdapterData == [p \in AccountProtocols |-> Held(<<>>, <<>>)]

\* What an adapter may hold, as tried: nothing, an address in both, an address
\* in two events, and two addresses.
HeldStates ==
  { Held(<<>>, <<>>),
    Held(<< "0x1" >>, << "0x1" >>),
    Held(<<>>, << "0x2", "0x2" >>),
    Held(<< "0x2" >>, << "0x1" >>) }

\* The filters defiAccounts is read with.
AccountFilters ==
  { {}, {"AAVE"}, {"MAKERDAO_DSR"}, {"AAVE", "MAKERDAO_DSR"}, {"COMPOUND", "YEARN_VAULTS"},
    {"YEARN_VAULTS_V2", "MAKERDAO_VAULTS"}, {"MAKERDAO_VAULTS"}, AccountProtocols }


\* Every section the store reads or writes.
Sections == StoreSections \cup AdapterSections

\* ------------------------------------------------------------------ state
VARIABLES
  allProtocols,   \* ref<AllDefiProtocols>
  status,         \* the status store: section -> Status
  premium,        \* usePremium()
  balRuns,        \* the suspended fetchDefiBalances invocations (a bag)
  allRuns,        \* the suspended fetchAllDefi invocations (a bag)
  resetRuns,      \* the suspended resetDB invocations (a bag)
  lastOp,         \* the handler step that has just run, and how it ended
  calls,          \* what that step called on the store's collaborators, in order
  lending,        \* the totals of useDefiSupportedProtocols(), per DefiProtocol
  adapterData,    \* the balances and history the adapter stores hold, per DefiProtocol
  view            \* what a consumer has last read from overview or defiAccounts

vars == <<allProtocols, status, premium, balRuns, allRuns, resetRuns, lastOp, calls,
          lending, adapterData, view>>

\* What the store only reads, and what is read from it.
derived == <<lending, adapterData, view>>

\* A suspended fetchDefiBalances: the await it is at ("submit": fetchAllDefiCaller,
\* "task": awaitTask), its argument, whether fetchAllDefi called it, and whether
\* that fetchAllDefi is the observed one.
BalRun(pc, refresh, nested, observed) ==
  [pc |-> pc, refresh |-> refresh, nested |-> nested, observed |-> observed]

\* A suspended fetchAllDefi: the await it is at ("balances": fetchDefiBalances,
\* "afterBalances": that call has returned, "adapters": Promise.allSettled), its
\* argument, and whether it is the one invocation singled out for observation.
AllRun(pc, refresh, observed) ==
  [pc |-> pc, refresh |-> refresh, observed |-> observed]

\* A suspended resetDB, at `await Promise.all(toReset)`.
ResetRun(toReset) == [toReset |-> toReset]

BalKinds == {BalRun(pc, r, n, o) : pc \in {"submit", "task"}, r \in BOOLEAN,
                                   n \in BOOLEAN, o \in BOOLEAN}
AllKinds == {AllRun(pc, r, o) : pc \in {"balances", "afterBalances", "adapters"},
                                r \in BOOLEAN, o \in BOOLEAN}

Add(bag, run) == bag (+) SetToBag({run})
Remove(bag, run) == bag (-) SetToBag({run})

\* One step of a handler: which operation, which part of it, with what input,
\* how the invocation ended (if it did), how many of the promises it awaited
\* had rejected, and whether it is a step of the observed fetchAllDefi.
Op(op, step, refresh, arg, result) ==
  [op |-> op, step |-> step, refresh |-> refresh, arg |-> arg,
   result |-> result, rejected |-> 0, observed |-> FALSE]

\* One call on a collaborator: the function, its argument (a module, a protocol
\* version, a task type, a message) and the refresh and reset flags it is given.
Call(fn, arg, refresh, reset) ==
  [fn |-> fn, arg |-> arg, refresh |-> refresh, reset |-> reset]

Init ==
  /\ allProtocols = EmptyProtocols
  /\ status = [s \in Sections |-> "NOT_LOADED"]
  /\ premium \in BOOLEAN
  /\ balRuns = EmptyBag
  /\ allRuns = EmptyBag
  /\ resetRuns = EmptyBag
  /\ lastOp = Op("init", "", FALSE, {}, "")
  /\ calls = <<>>
  /\ lending = NoLending
  /\ adapterData = NoAdapterData
  /\ view = <<>>

\* ------------------------------------------------------- the status updater
getStatus(st, section) == st[section]

setStatus(st, newStatus, section) == [st EXCEPT ![section] = newStatus]

\* A section whose fetch is in flight.
isLoading(s) == s \in {"LOADING", "REFRESHING", "PARTIALLY_LOADED"}

loading(st, section) == isLoading(getStatus(st, section))

\* The guard of a fetch: a fetch of the section is in flight and refresh is false.
fetchDisabled(st, refresh, section) == ~refresh /\ loading(st, section)

\* ------------------------------------------------------------ fetchDefiBalances
\* How many fetch invocations are suspended.
Suspended == BagCardinality(balRuns) + BagCardinality(allRuns)

\* Mutant: the guard of fetchDefiBalances is missing.
BalancesNeverSkipped(st, refresh) == FALSE

\* fetchDefiBalances returns at once (index.ts:400-402).
BalancesSkipped(st, refresh) == fetchDisabled(st, refresh, "DEFI_BALANCES")

\* The notification of the catch block, built from e.message.
BalancesErrorNotification(message) == Call("notify", message, FALSE, FALSE)

\* A direct call of fetchDefiBalances(refresh), up to its first await.
FetchDefiBalancesCall(refresh) ==
  IF BalancesSkipped(status, refresh)
    THEN /\ lastOp' = Op("fetchDefiBalances", "call", refresh, {}, "resolved")
         /\ calls' = <<>>
         /\ UNCHANGED <<allProtocols, status, premium, derived, balRuns, allRuns, resetRuns>>
    ELSE /\ Suspended < MaxFetchRuns
         /\ status' = setStatus(status, "LOADING", "DEFI_BALANCES")
         /\ balRuns' = Add(balRuns, BalRun("submit", refresh, FALSE, FALSE))
         /\ lastOp' = Op("fetchDefiBalances", "call", refresh, {}, "pending")
         /\ calls' = << Call("fetchAllDefiCaller", "", FALSE, FALSE) >>
         /\ UNCHANGED <<allProtocols, premium, derived, allRuns, resetRuns>>

\* The caller of an invocation that has returned goes on: fetchAllDefi's
\* `await fetchDefiBalances(refresh)` is over.
ResumeParent(runs, run) ==
  IF ~run.nested THEN runs
  ELSE Add(Remove(runs, AllRun("balances", run.refresh, run.observed)),
           AllRun("afterBalances", run.refresh, run.observed))

\* Mutant: setStatus(LOADED) inside the try block, skipped by a failure.
BalancesFinishKeepsLoading(run, step, failed, message) ==
  /\ status' = IF failed THEN status ELSE setStatus(status, "LOADED", "DEFI_BALANCES")
  /\ calls' = IF failed THEN << BalancesErrorNotification(message) >> ELSE <<>>
  /\ balRuns' = Remove(balRuns, run)
  /\ allRuns' = ResumeParent(allRuns, run)
  /\ lastOp' = [Op("fetchDefiBalances", step, run.refresh,
                   IF failed THEN {message} ELSE {}, "resolved")
                  EXCEPT !.observed = run.observed]

\* Mutant: no catch block, a failure rejects the call (and its caller).
BalancesFinishRethrows(run, step, failed, message) ==
  /\ status' = IF failed THEN status ELSE setStatus(status, "LOADED", "DEFI_BALANCES")
  /\ calls' = <<>>
  /\ balRuns' = Remove(balRuns, run)
  /\ allRuns' = IF failed /\ run.nested
                  THEN Remove(allRuns, AllRun("balances", run.refresh, run.observed))
                  ELSE ResumeParent(allRuns, run)
  /\ lastOp' = [Op("fetchDefiBalances", step, run.refresh,
                   IF failed THEN {message} ELSE {},
                   IF failed THEN "rejected" ELSE "resolved")
                  EXCEPT !.observed = run.observed]

\* The end of fetchDefiBalances: (the catch block, then) setStatus(LOADED).
BalancesFinish(run, step, failed, message) ==
  /\ status' = setStatus(status, "LOADED", "DEFI_BALANCES")
  /\ calls' = IF failed THEN << BalancesErrorNotification(message) >> ELSE <<>>
  /\ balRuns' = Remove(balRuns, run)
  /\ allRuns' = ResumeParent(allRuns, run)
  /\ lastOp' = [Op("fetchDefiBalances", step, run.refresh,
                   IF failed THEN {message} ELSE {}, "resolved")
                  EXCEPT !.observed = run.observed]

\* `await fetchAllDefiCaller()` settles: a task id, or a rejection.
BalancesSubmitSettled(run, outcome) ==
  /\ BagIn(run, balRuns)
  /\ run.pc = "submit"
  /\ IF outcome.ok
       THEN /\ balRuns' = Add(Remove(balRuns, run), [run EXCEPT !.pc = "task"])
            /\ calls' = << Call("awaitTask", "DEFI_BALANCES", FALSE, FALSE) >>
            /\ lastOp' = [Op("fetchDefiBalances", "submitted", run.refresh, {}, "pending")
                            EXCEPT !.observed = run.observed]
            /\ UNCHANGED <<allProtocols, status, allRuns>>
       ELSE /\ BalancesFinish(run, "submitFailed", TRUE, outcome.error)
            /\ UNCHANGED allProtocols
  /\ UNCHANGED <<premium, derived, resetRuns>>

\* `await awaitTask(...)` settles: a result, or a rejection.
BalancesTaskSettled(run, outcome) ==
  /\ BagIn(run, balRuns)
  /\ run.pc = "task"
  /\ IF outcome.ok
       THEN LET parsed == ParseAllDefiProtocols(outcome.result) IN
            IF parsed.ok
              THEN /\ allProtocols' = parsed.value
                   /\ BalancesFinish(run, "loaded", FALSE, "")
              ELSE /\ BalancesFinish(run, "invalid", TRUE, parsed.error)
                   /\ UNCHANGED allProtocols
       ELSE /\ BalancesFinish(run, "taskFailed", TRUE, outcome.error)
            /\ UNCHANGED allProtocols
  /\ UNCHANGED <<premium, derived, resetRuns>>

\* ------------------------------------------------------------ fetchAllDefi
\* fetchAllDefi returns at once (index.ts:432-434).
AllDefiSkipped(st, refresh) == fetchDisabled(st, refresh, defaultSection)

\* Mutant: Promise.all in place of Promise.allSettled.
AdaptersAwaitAll(rejected) == rejected = {}

\* Promise.allSettled: the await ends normally whichever promises rejected.
AdaptersAwaitResumes(rejected) == TRUE

\* At most one suspended fetchAllDefi is the observed one.
NoneObserved == \A run \in BagToSet(allRuns) : ~run.observed

\* A call of fetchAllDefi(refresh), up to its first await: the guard, the
\* umbrella status, and the synchronous part of fetchDefiBalances(refresh).
FetchAllDefiCall(refresh, observed) ==
  IF AllDefiSkipped(status, refresh)
    THEN /\ ~observed
         /\ lastOp' = Op("fetchAllDefi", "call", refresh, {}, "resolved")
         /\ calls' = <<>>
         /\ UNCHANGED <<allProtocols, status, premium, derived, balRuns, allRuns, resetRuns>>
    ELSE /\ Suspended < MaxFetchRuns
         /\ observed => NoneObserved
         /\ LET newStatus == IF refresh THEN "REFRESHING" ELSE "LOADING"
                st1 == setStatus(status, newStatus, defaultSection)
            IN  IF BalancesSkipped(st1, refresh)
                  THEN /\ status' = st1
                       /\ allRuns' = Add(allRuns, AllRun("afterBalances", refresh, observed))
                       /\ calls' = <<>>
                       /\ UNCHANGED balRuns
                  ELSE /\ Suspended + 1 < MaxFetchRuns
                       /\ status' = setStatus(st1, "LOADING", "DEFI_BALANCES")
                       /\ balRuns' = Add(balRuns, BalRun("submit", refresh, TRUE, observed))
                       /\ allRuns' = Add(allRuns, AllRun("balances", refresh, observed))
                       /\ calls' = << Call("fetchAllDefiCaller", "", FALSE, FALSE) >>
         /\ lastOp' = [Op("fetchAllDefi", "call", refresh, {}, "pending")
                         EXCEPT !.observed = observed]
         /\ UNCHANGED <<allProtocols, premium, derived, resetRuns>>

\* After `await fetchDefiBalances(refresh)`: PARTIALLY_LOADED, then the seven
\* adapter fetches are started and handed to Promise.allSettled.
FetchAllDefiAfterBalances(run) ==
  /\ BagIn(run, allRuns)
  /\ run.pc = "afterBalances"
  /\ status' = setStatus(status, "PARTIALLY_LOADED", defaultSection)
  /\ calls' = [n \in AdapterIds |->
                 Call(AdapterFetches[n].fn, AdapterFetches[n].arg, run.refresh, FALSE)]
  /\ allRuns' = Add(Remove(allRuns, run), [run EXCEPT !.pc = "adapters"])
  /\ lastOp' = [Op("fetchAllDefi", "adapters", run.refresh, {}, "pending")
                  EXCEPT !.observed = run.observed]
  /\ UNCHANGED <<allProtocols, premium, derived, balRuns, resetRuns>>

\* The seven adapter fetches have settled, those in `rejected` by rejecting.
FetchAllDefiAdaptersSettled(run, rejected) ==
  /\ BagIn(run, allRuns)
  /\ run.pc = "adapters"
  /\ allRuns' = Remove(allRuns, run)
  /\ calls' = <<>>
  /\ IF AdaptersAwaitResumes(rejected)
       THEN /\ status' = setStatus(status, "LOADED", defaultSection)
            /\ lastOp' = [Op("fetchAllDefi", "done", run.refresh, {}, "resolved")
                            EXCEPT !.rejected = Cardinality(rejected),
                                   !.observed = run.observed]
       ELSE /\ lastOp' = [Op("fetchAllDefi", "done", run.refresh, {}, "rejected")
                            EXCEPT !.rejected = Cardinality(rejected),
                                   !.observed = run.observed]
            /\ UNCHANGED status
  /\ UNCHANGED <<allProtocols, premium, derived, balRuns, resetRuns>>

\* ------------------------------------------------------------------ resetDB
premiumSection == "DEFI_LENDING_HISTORY"

\* Mutant: the gate of resetDB forgets the section that is loading.
ResetDBSkippedPremiumOnly(st, prem) == ~prem

\* resetDB returns at once (index.ts:463-465).
ResetDBSkipped(st, prem) == ~prem \/ loading(st, premiumSection)

\* Mutant: the history fetches are asked to refresh, not to reset.
HistoryFetchesIncremental(protocols) ==
  (IF "YEARN_VAULTS" \in protocols
     THEN << Call("yearnStore.fetchHistory", "V1", TRUE, FALSE) >> ELSE <<>>)
  \o (IF "YEARN_VAULTS_V2" \in protocols
     THEN << Call("yearnStore.fetchHistory", "V2", TRUE, FALSE) >> ELSE <<>>)
  \o (IF "AAVE" \in protocols
     THEN << Call("aaveStore.fetchHistory", "", TRUE, FALSE) >> ELSE <<>>)

\* toReset: the history fetches resetDB starts for `protocols`, in order.
HistoryFetches(protocols) ==
  (IF "YEARN_VAULTS" \in protocols
     THEN << Call("yearnStore.fetchHistory", "V1", TRUE, TRUE) >> ELSE <<>>)
  \o (IF "YEARN_VAULTS_V2" \in protocols
     THEN << Call("yearnStore.fetchHistory", "V2", TRUE, TRUE) >> ELSE <<>>)
  \o (IF "AAVE" \in protocols
     THEN << Call("aaveStore.fetchHistory", "", TRUE, TRUE) >> ELSE <<>>)

\* Mutant: Promise.allSettled in place of Promise.all.
HistoryAwaitSettled(rejected) == TRUE

\* Promise.all: the await ends normally only if no promise rejected.
HistoryAwaitResumes(rejected) == rejected = {}

\* A call of resetDB(protocols), up to `await Promise.all(toReset)`.
ResetDBCall(protocols) ==
  IF ResetDBSkipped(status, premium)
    THEN /\ lastOp' = Op("resetDB", "call", FALSE, protocols, "resolved")
         /\ calls' = <<>>
         /\ UNCHANGED <<allProtocols, status, premium, derived, balRuns, allRuns, resetRuns>>
    ELSE /\ BagCardinality(resetRuns) < MaxResetRuns
         /\ resetRuns' = Add(resetRuns, ResetRun(HistoryFetches(protocols)))
         /\ lastOp' = Op("resetDB", "call", FALSE, protocols, "pending")
         /\ status' = setStatus(status, "REFRESHING", premiumSection)
         /\ calls' = HistoryFetches(protocols)
         /\ UNCHANGED <<allProtocols, premium, derived, balRuns, allRuns>>

\* Promise.all(toReset) settles; `rejected` are the promises that rejected.
ResetDBSettled(run, rejected) ==
  /\ BagIn(run, resetRuns)
  /\ rejected \subseteq 1..Len(run.toReset)
  /\ resetRuns' = Remove(resetRuns, run)
  /\ calls' = <<>>
  /\ IF HistoryAwaitResumes(rejected)
       THEN /\ status' = setStatus(status, "LOADED", premiumSection)
            /\ lastOp' = [Op("resetDB", "done", FALSE, {}, "resolved")
                            EXCEPT !.rejected = Cardinality(rejected)]
       ELSE /\ lastOp' = [Op("resetDB", "done", FALSE, {}, "rejected")
                            EXCEPT !.rejected = Cardinality(rejected)]
            /\ UNCHANGED status
  /\ UNCHANGED <<allProtocols, premium, derived, balRuns, allRuns>>

\* ------------------------------------------------------- resetState, reset
\* modules[mod](): the reset of one registered module.
ModuleReset(module) ==
  LET i == CHOOSE n \in 1..Len(modules) : modules[n].module = module
  IN  Call(modules[i].fn, modules[i].arg, FALSE, FALSE)

\* Mutant: the group lists its modules in another order.
DecentralizedExchangesSwapped == <<"SUSHISWAP", "UNISWAP", "BALANCER">>

\* The modules of the ALL_DECENTRALIZED_EXCHANGES group, in the order of the array.
DecentralizedExchanges == <<"UNISWAP", "SUSHISWAP", "BALANCER">>

\* The calls resetState(module) makes, in order.
ResetStateCalls(module) ==
  IF module = ALL_DECENTRALIZED_EXCHANGES
    THEN [n \in 1..Len(DecentralizedExchanges) |-> ModuleReset(DecentralizedExchanges[n])]
  ELSE IF module = ALL_MODULES
    THEN [n \in 1..Len(modules) |-> ModuleReset(modules[n].module)]
  ELSE IF module \in ModuleNames
    THEN << ModuleReset(module) >>
  ELSE << Call("logger.warn", module, FALSE, FALSE) >>

\* The calls reset() makes after emptying allProtocols.
ResetCalls ==
  << Call("airdropStore.$reset", "", FALSE, FALSE) >> \o ResetStateCalls(ALL_MODULES)

ResetState(module) ==
  /\ calls' = ResetStateCalls(module)
  /\ lastOp' = Op("resetState", "call", FALSE, {module}, "returned")
  /\ UNCHANGED <<allProtocols, status, premium, derived, balRuns, allRuns, resetRuns>>

\* Mutant: reset() forgets allProtocols.
ResetBodyKeepsProtocols ==
  /\ calls' = ResetCalls
  /\ UNCHANGED allProtocols

\* The body of reset(): empty allProtocols, reset the airdrops, resetState(ALL_MODULES).
ResetBody ==
  /\ allProtocols' = EmptyProtocols
  /\ calls' = ResetCalls

\* A direct call of reset().
Reset ==
  /\ ResetBody
  /\ lastOp' = Op("reset", "call", FALSE, {}, "returned")
  /\ UNCHANGED <<status, premium, derived, balRuns, allRuns, resetRuns>>

\* ---------------------------------------------------------- watch(premium)
\* watch() runs its callback when the watched value has changed.
WatchTriggered(old, new) == old # new

\* Mutant: the callback resets whatever the new value is.
WatchResetsAlways(new) == TRUE

\* The callback calls reset() (index.ts:540-542).
WatchResets(new) == ~new

\* The premium entitlement is set to `new`; the watcher reacts (its callback is
\* taken to run before any other handler does).
SetPremium(new) ==
  /\ premium' = new
  /\ IF WatchTriggered(premium, new) /\ WatchResets(new)
       THEN /\ ResetBody
            /\ lastOp' = Op("premium", "watch", FALSE, {}, "reset")
       ELSE /\ calls' = <<>>
            /\ lastOp' = Op("premium",
                            IF WatchTriggered(premium, new) THEN "watch" ELSE "set",
                            FALSE, {}, "returned")
            /\ UNCHANGED allProtocols
  /\ UNCHANGED <<status, balRuns, allRuns, resetRuns, derived>>

\* ---------------------------------------------------------------- overview
\* A value that may be missing (undefined, null): <<>> or << v >>.
Undefined == <<>>
Some(v) == << v >>

\* A Record<string, T> as the (key, value) pairs in insertion order.
Has(map, key) == \E n \in 1..Len(map) : map[n].key = key
IndexOf(map, key) == CHOOSE n \in 1..Len(map) : map[n].key = key
Get(map, key) == map[IndexOf(map, key)].value
Put(map, key, value) ==
  IF Has(map, key)
    THEN [map EXCEPT ![IndexOf(map, key)].value = value]
    ELSE Append(map, [key |-> key, value |-> value])
Values(map) == [n \in 1..Len(map) |-> map[n].value]

\* Object.keys(defiProtocols), and the entries in the order the loops visit them.
Keys(defiProtocols) ==
  LET Present(a) == a \in DOMAIN defiProtocols IN SelectSeq(AddressOrder, Present)

RECURSIVE EntriesFrom(_, _, _)
EntriesFrom(defiProtocols, keys, n) ==
  IF n > Len(keys) THEN <<>>
  ELSE defiProtocols[keys[n]] \o EntriesFrom(defiProtocols, keys, n + 1)

Entries(defiProtocols) == EntriesFrom(defiProtocols, Keys(defiProtocols), 1)

\* Mutant: every summary is displayed.
shouldDisplayAlways(summary) == TRUE

shouldDisplay(summary) ==
  LET lend == summary.totalLendingDepositUsd > 0
      debt == summary.totalDebtUsd > 0
      balance == summary.balanceUsd # Undefined /\ summary.balanceUsd[1] > 0
      collateral == summary.totalCollateralUsd > 0
  IN  lend \/ debt \/ balance \/ collateral

\* Mutant: a summary is built whatever the status of its section.
SummarizedAlways(currentStatus) == TRUE

\* The status check of protocolSummary (index.ts:183-189).
Summarized(currentStatus) == currentStatus \in {"LOADED", "REFRESHING"}

\* protocolSummary: the summary of a protocol with a summarizer, or undefined.
protocolSummary(st, lend, protocol, section, name, noLiabilities, noDeposits) ==
  IF ~Summarized(getStatus(st, section)) THEN Undefined
  ELSE Some(
    [ protocol |-> name,
      liabilities |-> ~noLiabilities,
      deposits |-> ~noDeposits,
      tokenInfo |-> Undefined,
      assets |-> <<>>,
      liabilitiesUrl |-> IF noLiabilities THEN Undefined
                         ELSE Some(<<"/defi/liabilities?protocol=", protocol>>),
      depositsUrl |-> IF noDeposits THEN Undefined
                      ELSE Some(<<"/defi/deposits?protocol=", protocol>>),
      totalCollateralUsd |-> IF noLiabilities THEN Zero ELSE lend[protocol].totalCollateralUsd,
      totalDebtUsd |-> IF noLiabilities THEN Zero ELSE lend[protocol].totalDebt,
      totalLendingDepositUsd |-> IF noDeposits THEN Zero ELSE lend[protocol].totalLendingDeposit,
      balanceUsd |-> Undefined ])

\* `if (s && shouldDisplay(s)) summary[key] = s`
PutDisplayed(summary, key, s) ==
  IF s # Undefined /\ shouldDisplay(s[1]) THEN Put(summary, key, s[1]) ELSE summary

\* The summary a generic protocol starts with (index.ts:281-296).
SeedSummary(entry) ==
  [ protocol |-> entry.protocol,
    liabilities |-> FALSE,
    deposits |-> FALSE,
    tokenInfo |-> Some([tokenName |-> entry.tokenName, tokenSymbol |-> entry.tokenSymbol]),
    assets |-> <<>>,
    liabilitiesUrl |-> Undefined,
    depositsUrl |-> Undefined,
    totalCollateralUsd |-> Zero,
    totalDebtUsd |-> Zero,
    totalLendingDepositUsd |-> Zero,
    balanceUsd |-> Undefined ]

\* Mutant: the token info follows the entry that differs.
TokenInfoFollows(value, entry) ==
  IF value.tokenInfo[1].tokenName # entry.tokenName
    THEN [value EXCEPT !.tokenInfo =
            Some([tokenName |-> entry.tokenName, tokenSymbol |-> entry.tokenSymbol])]
    ELSE value

\* The token info of a summary that is there already (index.ts:297-303).
TokenInfoCollapsed(value, entry) ==
  IF value.tokenInfo[1].tokenName # entry.tokenName
    THEN [value EXCEPT !.tokenInfo =
            Some([tokenName |-> multiple_assets, tokenSymbol |-> ""])]
    ELSE value

\* entry.baseBalance
BaseBalance(entry) ==
  [tokenAddress |-> entry.tokenAddress, tokenName |-> entry.tokenName,
   tokenSymbol |-> entry.tokenSymbol, amount |-> entry.amount, usdValue |-> entry.usdValue]

\* assets.findIndex(by token address), counted from 1; 0 when there is none.
findIndex(assets, tokenAddress) ==
  IF \E n \in 1..Len(assets) : assets[n].tokenAddress = tokenAddress
    THEN CHOOSE n \in 1..Len(assets) :
           /\ assets[n].tokenAddress = tokenAddress
           /\ \A m \in 1..(n - 1) : assets[m].tokenAddress # tokenAddress
    ELSE 0

\* Mutant: an asset of a token that is there already is appended again.
MergeAssetAppends(assets, entry) == Append(assets, BaseBalance(entry))

\* The asset list with the entry merged in by token address (index.ts:309-327).
MergeAsset(assets, entry) ==
  LET assetIndex == findIndex(assets, entry.tokenAddress) IN
  IF assetIndex >= 1
    THEN [assets EXCEPT ![assetIndex] =
            [@ EXCEPT !.usdValue = entry.usdValue + @,
                      !.amount = entry.amount + @]]
    ELSE Append(assets, BaseBalance(entry))

\* The summary with an Asset entry added (index.ts:306-328).
AddAsset(value, entry) ==
  LET previousBalance == IF value.balanceUsd = Undefined THEN Zero ELSE value.balanceUsd[1]
  IN  [value EXCEPT !.balanceUsd = Some(previousBalance + entry.usdValue),
                    !.assets = MergeAsset(value.assets, entry)]

\* One entry of a protocol without a summarizer (index.ts:280-328).
AccumulateGeneric(summary, entry) ==
  LET protocol == entry.protocol
      seeded == IF ~Has(summary, protocol)
                  THEN SeedSummary(entry)
                  ELSE TokenInfoCollapsed(Get(summary, protocol), entry)
  IN  Put(summary, protocol,
          IF entry.balanceType = "Asset" THEN AddAsset(seeded, entry) ELSE seeded)

\* One pass of the inner loop (index.ts:221-329).
Accumulate(summary, entry, st, lend) ==
  LET protocol == entry.protocol IN
  IF protocol = AAVE
    THEN PutDisplayed(summary, protocol,
           protocolSummary(st, lend, "AAVE", "DEFI_AAVE_BALANCES", protocol, FALSE, FALSE))
  ELSE IF protocol = COMPOUND
    THEN PutDisplayed(summary, protocol,
           protocolSummary(st, lend, "COMPOUND", "DEFI_COMPOUND_BALANCES", protocol, FALSE, FALSE))
  ELSE IF protocol = YEARN_FINANCE_VAULTS
    THEN PutDisplayed(summary, protocol,
           protocolSummary(st, lend, "YEARN_VAULTS", "DEFI_YEARN_VAULTS_BALANCES", protocol, TRUE, FALSE))
  ELSE IF protocol = LIQUITY
    THEN PutDisplayed(summary, protocol,
           protocolSummary(st, lend, "LIQUITY", "DEFI_LIQUITY_BALANCES", protocol, FALSE, TRUE))
  ELSE AccumulateGeneric(summary, entry)

\* The two loops over the entries (index.ts:216-330).
RECURSIVE FoldEntries(_, _, _, _)
FoldEntries(summary, entries, st, lend) ==
  IF entries = <<>> THEN summary
  ELSE FoldEntries(Accumulate(summary, Head(entries), st, lend), Tail(entries), st, lend)

\* The MakerDAO and Yearn V2 summaries, added when the overview is loaded
\* (index.ts:332-390).
WithOverviewSummaries(summary, st, lend) ==
  IF getStatus(st, defaultSection) \notin {"LOADED", "REFRESHING"} THEN summary
  ELSE
    LET makerDAODSRSummary ==
          [ protocol |-> MAKERDAO_DSR,
            liabilities |-> FALSE,
            deposits |-> TRUE,
            tokenInfo |-> Undefined,
            assets |-> <<>>,
            liabilitiesUrl |-> Undefined,
            depositsUrl |-> Some(<<"/defi/deposits?protocol=", "makerdao">>),
            totalCollateralUsd |-> Zero,
            totalDebtUsd |-> Zero,
            totalLendingDepositUsd |-> lend["MAKERDAO_DSR"].totalLendingDeposit,
            balanceUsd |-> Undefined ]
        makerDAOVaultSummary ==
          [ protocol |-> MAKERDAO_VAULTS,
            liabilities |-> TRUE,
            deposits |-> FALSE,
            tokenInfo |-> Undefined,
            assets |-> <<>>,
            liabilitiesUrl |-> Some(<<"/defi/liabilities?protocol=", "makerdao">>),
            depositsUrl |-> Undefined,
            totalCollateralUsd |-> lend["MAKERDAO_VAULTS"].totalCollateralUsd,
            totalDebtUsd |-> lend["MAKERDAO_VAULTS"].totalDebt,
            totalLendingDepositUsd |-> Zero,
            balanceUsd |-> Undefined ]
        s1 == PutDisplayed(summary, "MAKERDAO_DSR", Some(makerDAODSRSummary))
        s2 == PutDisplayed(s1, "MAKERDAO_VAULTS", Some(makerDAOVaultSummary))
    IN  PutDisplayed(s2, "YEARN_VAULTS_V2",
          protocolSummary(st, lend, "YEARN_VAULTS_V2", "DEFI_YEARN_VAULTS_V2_BALANCES",
                          YEARN_FINANCE_VAULTS_V2, TRUE, FALSE))

\* sortBy(values, 'protocol.name'): ascending by name, equal names in the order
\* they came.
RECURSIVE SortedFrom(_, _)
SortedFrom(values, n) ==
  IF n > Len(ProtocolNames) THEN <<>>
  ELSE LET Named(value) == value.protocol = ProtocolNames[n]
       IN  SelectSeq(values, Named) \o SortedFrom(values, n + 1)

sortBy(values) == SortedFrom(values, 1)

\* The truth value of `value.balanceUsd`: a BigNumber is an object, and every
\* object is truthy; undefined is not.
Truthy(balanceUsd) == balanceUsd # Undefined

\* The filter of the result (index.ts:392-394).
Kept(value) == Truthy(value.balanceUsd) \/ value.deposits \/ value.liabilities

overview(defiProtocols, st, lend) ==
  SelectSeq(
    sortBy(Values(WithOverviewSummaries(
             FoldEntries(<<>>, Entries(defiProtocols), st, lend), st, lend))),
    Kept)

\* A consumer reads overview.
ReadOverview ==
  /\ view' = overview(allProtocols, status, lending)
  /\ lastOp' = Op("overview", "read", FALSE, {}, "returned")
  /\ calls' = <<>>
  /\ UNCHANGED <<allProtocols, status, premium, balRuns, allRuns, resetRuns,
                 lending, adapterData>>

\* ------------------------------------------------------------ defiAccounts
\* uniqueStrings (utils/data), as a filter: the first occurrence of each string.
RECURSIVE uniqueFrom(_, _)
uniqueFrom(list, n) ==
  IF n > Len(list) THEN <<>>
  ELSE (IF \A m \in 1..(n - 1) : list[m] # list[n] THEN << list[n] >> ELSE <<>>)
       \o uniqueFrom(list, n + 1)

uniqueStrings(list) == uniqueFrom(list, 1)

\* `protocols.length === 0 || protocols.includes(protocol)`
ProtocolSelected(protocols, protocol) == protocols = {} \/ protocol \in protocols

\* Mutant: the addresses of balances and history are not deduplicated.
getProtocolAddressesRepeated(protocols, protocol, balances, history) ==
  IF ProtocolSelected(protocols, protocol) THEN balances \o history ELSE <<>>

getProtocolAddresses(protocols, protocol, balances, history) ==
  IF ProtocolSelected(protocols, protocol)
    THEN uniqueStrings(balances \o history)
    ELSE <<>>

\* Mutant: the keys in the order in which the address lists are computed.
AddressesKeysAsComputed ==
  << "AAVE", "COMPOUND", "YEARN_VAULTS", "YEARN_VAULTS_V2", "MAKERDAO_DSR" >>

\* The keys of `addresses` as `for (const protocol in addresses)` meets them:
\* in the order the object literal lists them (index.ts:100-106); assigning to
\* a key that is there does not move it.
AddressesKeys ==
  << "MAKERDAO_DSR", "AAVE", "COMPOUND", "YEARN_VAULTS", "YEARN_VAULTS_V2" >>

\* An address of a protocol goes into `accounts` (index.ts:148-156).
AddAccount(accounts, address, selectedProtocol) ==
  IF Has(accounts, address)
    THEN Put(accounts, address,
             [Get(accounts, address) EXCEPT !.protocols = Append(@, selectedProtocol)])
    ELSE Put(accounts, address,
             [address |-> address, chain |-> "ETH", protocols |-> << selectedProtocol >>])

RECURSIVE AddAccounts(_, _, _)
AddAccounts(accounts, perProtocolAddresses, selectedProtocol) ==
  IF perProtocolAddresses = <<>> THEN accounts
  ELSE AddAccounts(AddAccount(accounts, Head(perProtocolAddresses), selectedProtocol),
                   Tail(perProtocolAddresses), selectedProtocol)

\* The loop over `addresses`, from its n-th key (index.ts:139-158).
RECURSIVE AccountsFrom(_, _, _, _)
AccountsFrom(accounts, protocols, data, n) ==
  IF n > Len(AddressesKeys) THEN accounts
  ELSE LET selectedProtocol == AddressesKeys[n]
           perProtocolAddresses ==
             getProtocolAddresses(protocols, selectedProtocol,
                                  data[selectedProtocol].balances,
                                  data[selectedProtocol].history)
       IN  AccountsFrom(AddAccounts(accounts, perProtocolAddresses, selectedProtocol),
                        protocols, data, n + 1)

defiAccounts(protocols, data) == Values(AccountsFrom(<<>>, protocols, data, 1))

\* A consumer reads defiAccounts(protocols).
ReadDefiAccounts(protocols) ==
  /\ view' = defiAccounts(protocols, adapterData)
  /\ lastOp' = Op("defiAccounts", "read", FALSE, protocols, "returned")
  /\ calls' = <<>>
  /\ UNCHANGED <<allProtocols, status, premium, balRuns, allRuns, resetRuns,
                 lending, adapterData>>

\* ------------------------------------------------------- the specifications
\* The overview fetch, the orchestration, reset and the premium watcher.
Next ==
  \/ \E refresh \in BOOLEAN : FetchDefiBalancesCall(refresh)
  \/ \E run \in BalKinds, outcome \in SubmitOutcomes :
        BalancesSubmitSettled(run, outcome)
  \/ \E run \in BalKinds, outcome \in TaskOutcomes :
        BalancesTaskSettled(run, outcome)
  \/ \E refresh \in BOOLEAN : FetchAllDefiCall(refresh, FALSE)
  \/ \E run \in AllKinds : FetchAllDefiAfterBalances(run)
  \/ \E run \in AllKinds, rejected \in RejectedAdapters :
        FetchAllDefiAdaptersSettled(run, rejected)
  \/ Reset
  \/ \E new \in BOOLEAN : SetPremium(new)

Spec == Init /\ [][Next]_vars

\* The store as driven by callers that never force a refresh (refresh = false
\* in every fetch), with resetState, reset and the premium watcher.
NextNoRefresh ==
  \/ FetchDefiBalancesCall(FALSE)
  \/ \E run \in BalKinds, outcome \in SubmitOutcomes :
        BalancesSubmitSettled(run, outcome)
  \/ \E run \in BalKinds, outcome \in TaskOutcomes :
        BalancesTaskSettled(run, outcome)
  \/ FetchAllDefiCall(FALSE, FALSE)
  \/ \E run \in AllKinds : FetchAllDefiAfterBalances(run)
  \/ \E run \in AllKinds, rejected \in RejectedAdapters :
        FetchAllDefiAdaptersSettled(run, rejected)
  \/ \E module \in ResetStateParams : ResetState(module)
  \/ Reset
  \/ \E new \in BOOLEAN : SetPremium(new)

NoRefreshSpec == Init /\ [][NextNoRefresh]_vars

\* The fetches and reset, with one fetchAllDefi invocation at a time singled out
\* for observation.  The premium entitlement plays no part in a fetch: it is
\* held at false, and the reset() its loss brings about is the action Reset.
InitLive == Init /\ ~premium

NextLive ==
  \/ \E refresh \in BOOLEAN : FetchDefiBalancesCall(refresh)
  \/ \E run \in BalKinds, outcome \in SubmitOutcomes :
        BalancesSubmitSettled(run, outcome)
  \/ \E run \in BalKinds, outcome \in TaskOutcomes :
        BalancesTaskSettled(run, outcome)
  \/ \E refresh \in BOOLEAN, observed \in BOOLEAN : FetchAllDefiCall(refresh, observed)
  \/ \E run \in AllKinds : FetchAllDefiAfterBalances(run)
  \/ \E run \in AllKinds, rejected \in RejectedAdapters :
        FetchAllDefiAdaptersSettled(run, rejected)
  \/ Reset

\* The awaits of the observed invocation settle and its continuations run.
Fairness ==
  /\ \A refresh \in BOOLEAN :
        /\ WF_vars(\E outcome \in SubmitOutcomes :
                     BalancesSubmitSettled(BalRun("submit", refresh, TRUE, TRUE), outcome))
        /\ WF_vars(\E outcome \in TaskOutcomes :
                     BalancesTaskSettled(BalRun("task", refresh, TRUE, TRUE), outcome))
        /\ WF_vars(FetchAllDefiAfterBalances(AllRun("afterBalances", refresh, TRUE)))
        /\ WF_vars(\E rejected \in RejectedAdapters :
                     FetchAllDefiAdaptersSettled(AllRun("adapters", refresh, TRUE), rejected))

LiveSpec == InitLive /\ [][NextLive]_vars /\ Fairness

\* resetDB, resetState, reset and the premium watcher.
NextReset ==
  \/ \E protocols \in SUBSET ResetDBProtocols : ResetDBCall(protocols)
  \/ \E run \in BagToSet(resetRuns), rejected \in SUBSET (1..3) :
        ResetDBSettled(run, rejected)
  \/ \E module \in ResetStateParams : ResetState(module)
  \/ Reset
  \/ \E new \in BOOLEAN : SetPremium(new)

ResetSpec == Init /\ [][NextReset]_vars

\* overview, read in the states the fetches, the adapters and the lending
\* totals may have left the stores in.
StatusStates ==
  { [s \in Sections |->
       IF s = defaultSection THEN o
       ELSE IF s \in AdapterSections THEN a
       ELSE IF s = "DEFI_BALANCES" THEN "LOADED"
       ELSE "NOT_LOADED"]
    : o \in Statuses, a \in {"NOT_LOADED", "LOADING", "LOADED"} }

InitOverview ==
  /\ allProtocols \in Payloads
  /\ status \in StatusStates
  /\ premium = FALSE
  /\ balRuns = EmptyBag
  /\ allRuns = EmptyBag
  /\ resetRuns = EmptyBag
  /\ lastOp = Op("init", "", FALSE, {}, "")
  /\ calls = <<>>
  /\ lending \in LendingStates
  /\ adapterData = NoAdapterData
  /\ view = <<>>

NextOverview == ReadOverview

OverviewSpec == InitOverview /\ [][NextOverview]_vars

\* defiAccounts, read with what the adapters may hold, whatever the statuses.
InitAccounts ==
  /\ allProtocols = EmptyProtocols
  /\ status \in {[s \in Sections |-> o] : o \in {"NOT_LOADED", "LOADED"}}
  /\ premium = FALSE
  /\ balRuns = EmptyBag
  /\ allRuns = EmptyBag
  /\ resetRuns = EmptyBag
  /\ lastOp = Op("init", "", FALSE, {}, "")
  /\ calls = <<>>
  /\ lending = NoLending
  /\ adapterData \in [AccountProtocols -> HeldStates]
  /\ view = <<>>

NextAccounts == \E protocols \in AccountFilters : ReadDefiAccounts(protocols)

AccountsSpec == InitAccounts /\ [][NextAccounts]_vars

\* overview and defiAccounts, read side by side: a payload with an entry of a
\* generic protocol and one of Aave, every adapter holding the same addresses.
PayloadMixed ==
  [a \in {"0xabc"} |->
     << Entry("Curve", "0xT", "Dai", "DAI", 100, 100, "Asset"),
        Entry(AAVE, "0xT", "Dai", "DAI", 100, 100, "Asset") >>]

InitDerived ==
  /\ allProtocols \in {EmptyProtocols, PayloadOne, PayloadMixed}
  /\ status \in StatusStates
  /\ premium = FALSE
  /\ balRuns = EmptyBag
  /\ allRuns = EmptyBag
  /\ resetRuns = EmptyBag
  /\ lastOp = Op("init", "", FALSE, {}, "")
  /\ calls = <<>>
  /\ lending \in LendingStates
  /\ adapterData \in {[p \in AccountProtocols |-> held] : held \in HeldStates}
  /\ view = <<>>

NextDerived ==
  \/ ReadOverview
  \/ \E protocols \in AccountFilters : ReadDefiAccounts(protocols)

DerivedSpec == InitDerived /\ [][NextDerived]_vars

\* ================================================================= claims
Range(seq) == {seq[n] : n \in 1..Len(seq)}

\* How many of the calls of a step are the call c.
Count(seq, c) == Cardinality({n \in 1..Len(seq) : seq[n] = c})

Submission == Call("fetchAllDefiCaller", "", FALSE, FALSE)

\* ---- C1
\* C1: with callers that pass refresh = false, a fetchDefiBalances call made
\* while an earlier one is suspended submits no job, starts nothing and leaves
\* allProtocols and every status as they are; so at most one overview job is
\* ever in flight.
C1_SecondCallIsNoOp ==
  /\ [](BagCardinality(balRuns) <= 1)
  /\ [][ ( /\ balRuns # EmptyBag
           /\ lastOp'.op = "fetchDefiBalances" /\ lastOp'.step = "call" )
         => ( /\ lastOp'.result = "resolved"
              /\ Submission \notin Range(calls')
              /\ balRuns' = balRuns
              /\ allProtocols' = allProtocols
              /\ status' = status ) ]_vars

\* Witness: a second direct call has returned while the first, itself a direct
\* call, awaits its task.
C1_Witness ==
  /\ lastOp.op = "fetchDefiBalances" /\ lastOp.step = "call"
  /\ ~lastOp.refresh /\ lastOp.result = "resolved"
  /\ calls = <<>>
  /\ BagIn(BalRun("task", FALSE, FALSE, FALSE), balRuns)

\* ---- C2
ObservedInFlight == \E run \in BagToSet(allRuns) : run.observed

ObservedDone ==
  /\ lastOp.op = "fetchAllDefi" /\ lastOp.step = "done" /\ lastOp.observed
  /\ lastOp.result = "resolved"
  /\ status[defaultSection] = "LOADED"

\* C2: a fetchAllDefi invocation that has passed its guard sets DEFI_OVERVIEW to
\* LOADED in the end, whatever the overview fetch and the adapter fetches do and
\* whatever is called meanwhile, provided its awaits settle.
C2_RunReachesLoaded == ObservedInFlight ~> ObservedDone

\* Witness: the observed invocation has finished although every adapter fetch
\* rejected.
C2_Witness == ObservedDone /\ lastOp.rejected = Cardinality(AdapterIds)

\* ---- C3
FetchRejected == lastOp.op = "fetchDefiBalances" /\ lastOp.step \in {"submitFailed", "taskFailed"}

\* C3: when the API call or the task of fetchDefiBalances rejects, no step of
\* the invocation writes allProtocols, the failing step emits exactly one
\* notification, which carries the message of the error, and DEFI_BALANCES is
\* LOADED after it.
C3_FailedFetchKeepsData ==
  [][ /\ ( /\ lastOp'.op = "fetchDefiBalances"
           /\ lastOp'.step \in {"call", "submitted", "submitFailed", "taskFailed"} )
         => allProtocols' = allProtocols
      /\ FetchRejected'
         => ( /\ \E message \in SubmitErrors \cup TaskErrors :
                   /\ lastOp'.arg = {message}
                   /\ calls' = << Call("notify", message, FALSE, FALSE) >>
              /\ status'["DEFI_BALANCES"] = "LOADED"
              /\ lastOp'.result = "resolved" ) ]_vars

\* Witness: the task has rejected and the data of an earlier fetch is still there.
C3_Witness ==
  /\ lastOp.op = "fetchDefiBalances" /\ lastOp.step = "taskFailed"
  /\ allProtocols = PayloadOne
  /\ status["DEFI_BALANCES"] = "LOADED"
  /\ Len(calls) = 1 /\ calls[1].fn = "notify"

\* ---- C4
FetchInvalid == lastOp.op = "fetchDefiBalances" /\ lastOp.step = "invalid"

\* C4 as claimed: a payload that fails validation rejects the call, and is not
\* turned into a notification.
C4_ValidationErrorPropagates ==
  FetchInvalid => (lastOp.result = "rejected" /\ calls = <<>>)

\* C4 as amended: a payload that fails validation is caught like any other
\* failure of the fetch: the call resolves, one notification carries the
\* validation error, allProtocols is not written and DEFI_BALANCES is LOADED.
C4_ValidationErrorIsNotified ==
  [][ FetchInvalid'
      => ( /\ lastOp'.result = "resolved"
           /\ calls' = << Call("notify", ValidationError, FALSE, FALSE) >>
           /\ allProtocols' = allProtocols
           /\ status'["DEFI_BALANCES"] = "LOADED" ) ]_vars

\* Witness: a malformed payload has arrived over data of an earlier fetch.
C4_Witness ==
  /\ FetchInvalid
  /\ lastOp.result = "resolved"
  /\ allProtocols = PayloadOne

\* ---- C5
\* The step that has just run was reset(), called directly or by the watcher.
ResetHasRun ==
  \/ lastOp.op = "reset"
  \/ lastOp.op = "premium" /\ lastOp.result = "reset"

\* C5 as claimed: while an overview fetch is suspended, nothing but that fetch
\* writes allProtocols; and a fetch that was suspended when reset() ran does
\* not fill allProtocols again.
C5_SingleWriter ==
  [][ /\ (balRuns # EmptyBag /\ allProtocols' # allProtocols)
         => lastOp'.op = "fetchDefiBalances"
      /\ (ResetHasRun /\ balRuns # EmptyBag)
         => ~( /\ lastOp'.op = "fetchDefiBalances" /\ lastOp'.step = "loaded"
               /\ allProtocols' # EmptyProtocols ) ]_vars

\* ---- C6
ExpectedModuleResets ==
  { Call("makerDaoStore.reset", "MAKERDAO_DSR", FALSE, FALSE),
    Call("makerDaoStore.reset", "MAKERDAO_VAULTS", FALSE, FALSE),
    Call("aaveStore.reset", "", FALSE, FALSE),
    Call("compoundStore.reset", "", FALSE, FALSE),
    Call("yearnStore.reset", "V1", FALSE, FALSE),
    Call("yearnStore.reset", "V2", FALSE, FALSE),
    Call("uniswapStore.reset", "", FALSE, FALSE),
    Call("sushiswapStore.reset", "", FALSE, FALSE),
    Call("balancerStore.reset", "", FALSE, FALSE),
    Call("liquityStore.reset", "", FALSE, FALSE) }

\* C6: right after reset(), allProtocols is empty, the airdrop store has been
\* reset once and each of the ten modules has been reset exactly once, and
\* nothing else was called.
C6_ResetClearsEverything ==
  ResetHasRun
  => ( /\ allProtocols = EmptyProtocols
       /\ Count(calls, Call("airdropStore.$reset", "", FALSE, FALSE)) = 1
       /\ \A c \in ExpectedModuleResets : Count(calls, c) = 1
       /\ Len(calls) = 1 + Cardinality(ExpectedModuleResets) )

\* Witness: reset() has run after an overview fetch had completed, with another
\* fetch still suspended.
C6_Witness ==
  /\ lastOp.op = "reset"
  /\ status["DEFI_BALANCES"] = "LOADED"
  /\ balRuns # EmptyBag

\* ---- C7
\* C7: the watcher runs reset() in exactly the steps that take premium from
\* true to false; any other setting of premium calls nothing and leaves
\* allProtocols as it is.
C7_ResetOnPremiumLoss ==
  [][ /\ (premium /\ ~premium')
         => ( /\ lastOp'.op = "premium" /\ lastOp'.result = "reset"
              /\ allProtocols' = EmptyProtocols
              /\ Len(calls') = 1 + Cardinality(ExpectedModuleResets) )
      /\ (lastOp'.op = "premium" /\ ~(premium /\ ~premium'))
         => ( /\ lastOp'.result = "returned"
              /\ calls' = <<>>
              /\ allProtocols' = allProtocols ) ]_vars

\* Witness: premium has been lost while allProtocols held data until then (the
\* fetch that loaded it has completed).
C7_Witness ==
  /\ lastOp.op = "premium" /\ lastOp.result = "reset"
  /\ ~premium
  /\ status["DEFI_BALANCES"] = "LOADED"

\* ---- C8
\* C8: resetState(ALL_DECENTRALIZED_EXCHANGES) resets Uniswap, Sushiswap and
\* Balancer, once each and in that order, calls nothing else, and leaves
\* allProtocols and every status as they are.
C8_ExchangesOnly ==
  [][ ( /\ lastOp'.op = "resetState"
        /\ lastOp'.arg = {ALL_DECENTRALIZED_EXCHANGES} )
      => ( /\ calls' = << Call("uniswapStore.reset", "", FALSE, FALSE),
                          Call("sushiswapStore.reset", "", FALSE, FALSE),
                          Call("balancerStore.reset", "", FALSE, FALSE) >>
           /\ allProtocols' = allProtocols
           /\ status' = status ) ]_vars

\* Witness: the group has been reset while allProtocols holds data.
C8_Witness ==
  /\ lastOp.op = "resetState"
  /\ lastOp.arg = {ALL_DECENTRALIZED_EXCHANGES}
  /\ Len(calls) = 3
  /\ allProtocols = PayloadOne

\* ---- C9
\* C9: a resetDB call made without premium, or while DEFI_LENDING_HISTORY is
\* loading, starts no history fetch, changes no status and resolves.
C9_ResetDBGate ==
  [][ ( /\ lastOp'.op = "resetDB" /\ lastOp'.step = "call"
        /\ (~premium \/ status[premiumSection] \in {"LOADING", "REFRESHING", "PARTIALLY_LOADED"}) )
      => ( /\ calls' = <<>>
           /\ status' = status
           /\ resetRuns' = resetRuns
           /\ lastOp'.result = "resolved" ) ]_vars

\* Witness: with premium set, a resetDB call for AAVE has returned at once
\* because the section is refreshing.
C9_Witness ==
  /\ lastOp.op = "resetDB" /\ lastOp.step = "call" /\ lastOp.result = "resolved"
  /\ premium
  /\ status[premiumSection] = "REFRESHING"
  /\ "AAVE" \in lastOp.arg

\* ---- C10
ExpectedHistoryCalls(protocols) ==
  {Call("yearnStore.fetchHistory", "V1", TRUE, TRUE) : p \in protocols \cap {"YEARN_VAULTS"}}
  \cup {Call("yearnStore.fetchHistory", "V2", TRUE, TRUE) : p \in protocols \cap {"YEARN_VAULTS_V2"}}
  \cup {Call("aaveStore.fetchHistory", "", TRUE, TRUE) : p \in protocols \cap {"AAVE"}}

\* C10: a resetDB call that passes its gate leaves DEFI_LENDING_HISTORY
\* REFRESHING and has started, with refresh and reset set, one history fetch
\* for each of YEARN_VAULTS (V1), YEARN_VAULTS_V2 (V2) and AAVE among its
\* protocols and nothing else; when the fetches have all completed, the
\* section is LOADED.
C10_ResetDBRefetches ==
  /\ (lastOp.op = "resetDB" /\ lastOp.step = "call" /\ lastOp.result = "pending")
     => ( /\ status[premiumSection] = "REFRESHING"
          /\ Range(calls) = ExpectedHistoryCalls(lastOp.arg)
          /\ Len(calls) = Cardinality(ExpectedHistoryCalls(lastOp.arg)) )
  /\ (lastOp.op = "resetDB" /\ lastOp.step = "done" /\ lastOp.result = "resolved")
     => status[premiumSection] = "LOADED"

\* Witness: resetDB was called for Yearn V2, Aave and Compound and went ahead.
C10_Witness ==
  /\ lastOp.op = "resetDB" /\ lastOp.step = "call" /\ lastOp.result = "pending"
  /\ lastOp.arg = {"YEARN_VAULTS_V2", "AAVE", "COMPOUND"}
  /\ Len(calls) = 2

\* ---- C11
\* C11 as claimed: no summary that overview returns has balanceUsd unset or
\* zero while its deposits flag and its liabilities flag are both false.
C11_NoEmptySummary ==
  lastOp.op = "overview"
  => \A n \in 1..Len(view) :
       ~( /\ (view[n].balanceUsd = Undefined \/ view[n].balanceUsd[1] = Zero)
          /\ ~view[n].deposits
          /\ ~view[n].liabilities )

\* ---- C12
\* The state of the scenario: one Asset entry of Aave, the Aave balances
\* LOADED, every lending total of Aave zero.
AaveScenario ==
  /\ allProtocols = [a \in {"0xabc"} |->
                       << Entry(AAVE, "0xT", "Dai", "DAI", 100, 100, "Asset") >>]
  /\ status["DEFI_AAVE_BALANCES"] = "LOADED"
  /\ lending["AAVE"] = Totals(Zero, Zero, Zero)

AaveSummaries == {n \in 1..Len(view) : view[n].protocol = AAVE}

\* C12 as claimed: in that state overview holds an Aave summary with
\* balanceUsd = 100 and the one asset of the entry.
C12_AaveSummaryFromEntry ==
  (lastOp.op = "overview" /\ AaveScenario)
  => \E n \in AaveSummaries :
       /\ view[n].balanceUsd = Some(100)
       /\ view[n].assets =
            << [tokenAddress |-> "0xT", tokenName |-> "Dai", tokenSymbol |-> "DAI",
                amount |-> 100, usdValue |-> 100] >>

\* C12 as amended: in that state overview holds no Aave summary; an Aave
\* summary is made of the lending totals alone: wherever overview holds one, its
\* balanceUsd is unset, it has no assets, and a lending total of Aave is above
\* zero.
C12_AaveSummaryFromLending ==
  lastOp.op = "overview"
  => /\ AaveScenario => AaveSummaries = {}
     /\ \A n \in AaveSummaries :
          /\ view[n].balanceUsd = Undefined
          /\ view[n].assets = <<>>
          /\ \/ lending["AAVE"].totalLendingDeposit > 0
             \/ lending["AAVE"].totalDebt > 0
             \/ lending["AAVE"].totalCollateralUsd > 0

\* Witness: overview has been read in the state of the scenario, with the
\* overview itself LOADED, and is empty.
C12_Witness ==
  /\ lastOp.op = "overview"
  /\ AaveScenario
  /\ status[defaultSection] = "LOADED"
  /\ view = <<>>

\* ---- C13
\* The summaries after the first k entries have been folded.
AfterEntries(k) ==
  FoldEntries(<<>>, SubSeq(Entries(allProtocols), 1, k), status, lending)

\* The names the loop does not accumulate entry by entry.
SummarizerNames == {AAVE, COMPOUND, YEARN_FINANCE_VAULTS, LIQUITY}

\* Entry k finds a summary of its protocol whose token name is another one.
NameDiffers(k) ==
  LET entry == Entries(allProtocols)[k] IN
  /\ entry.protocol \notin SummarizerNames
  /\ Has(AfterEntries(k - 1), entry.protocol)
  /\ Get(AfterEntries(k - 1), entry.protocol).tokenInfo[1].tokenName # entry.tokenName

CollapsedTokenInfo == Some([tokenName |-> multiple_assets, tokenSymbol |-> ""])

\* C13: from the entry on whose token name differs from the one its protocol's
\* summary holds, the summary's token info is the 'multiple assets' label with
\* an empty symbol after that entry and after every later one, and in what
\* overview returns.
C13_CollapseIsFinal ==
  lastOp.op = "overview"
  => \A k \in 1..Len(Entries(allProtocols)) :
       NameDiffers(k)
       => LET protocol == Entries(allProtocols)[k].protocol IN
          /\ \A j \in k..Len(Entries(allProtocols)) :
               Get(AfterEntries(j), protocol).tokenInfo = CollapsedTokenInfo
          /\ \A n \in 1..Len(view) :
               view[n].protocol = protocol => view[n].tokenInfo = CollapsedTokenInfo

\* Witness: entries named Dai, USD Coin and Dai again have been folded and the
\* summary overview returns for their protocol is collapsed.
C13_Witness ==
  /\ lastOp.op = "overview"
  /\ Len(Entries(allProtocols)) = 3
  /\ \A k \in 1..3 : Entries(allProtocols)[k].protocol = "Curve"
  /\ Entries(allProtocols)[1].tokenName = "Dai"
  /\ Entries(allProtocols)[2].tokenName = "USD Coin"
  /\ Entries(allProtocols)[3].tokenName = "Dai"
  /\ \E n \in 1..Len(view) :
       view[n].protocol = "Curve" /\ view[n].tokenInfo = CollapsedTokenInfo

\* ---- C14
\* The Asset entries of a protocol, and those of one of its tokens.
AssetEntries(protocol) ==
  LET IsAsset(entry) == entry.protocol = protocol /\ entry.balanceType = "Asset"
  IN  SelectSeq(Entries(allProtocols), IsAsset)

AssetEntriesOf(protocol, tokenAddress) ==
  LET IsToken(entry) == entry.tokenAddress = tokenAddress
  IN  SelectSeq(AssetEntries(protocol), IsToken)

RECURSIVE SumOf(_, _)
SumOf(entries, field) ==
  IF entries = <<>> THEN 0 ELSE Head(entries)[field] + SumOf(Tail(entries), field)

\* The summary is what the claim says the entries of its protocol add up to.
AddsUp(value) ==
  LET protocol == value.protocol
      assets == value.assets
  IN  /\ \A m, n \in 1..Len(assets) :
            assets[m].tokenAddress = assets[n].tokenAddress => m = n
      /\ {assets[n].tokenAddress : n \in 1..Len(assets)}
           = {AssetEntries(protocol)[n].tokenAddress : n \in 1..Len(AssetEntries(protocol))}
      /\ \A n \in 1..Len(assets) :
            /\ assets[n].amount = SumOf(AssetEntriesOf(protocol, assets[n].tokenAddress), "amount")
            /\ assets[n].usdValue = SumOf(AssetEntriesOf(protocol, assets[n].tokenAddress), "usdValue")
      /\ value.balanceUsd = IF AssetEntries(protocol) = <<>> THEN Undefined
                            ELSE Some(SumOf(AssetEntries(protocol), "usdValue"))

\* C14: the summary of a protocol that is accumulated entry by entry lists each
\* token address once, with the sums of the amounts and of the usdValues of the
\* protocol's Asset entries of that token; its balanceUsd is the sum of the
\* usdValues of all its Asset entries (unset when it has none); Liability
\* entries add to neither.  So it is in the fold and in what overview returns.
C14_AssetsAddUp ==
  lastOp.op = "overview"
  => LET folded == AfterEntries(Len(Entries(allProtocols))) IN
     /\ \A n \in 1..Len(folded) :
          folded[n].key \notin SummarizerNames => AddsUp(folded[n].value)
     /\ \A n \in 1..Len(view) :
          (view[n].protocol \notin SummarizerNames /\ view[n].tokenInfo # Undefined)
          => AddsUp(view[n])

\* Witness: 10/100 and 5/50 at 0xA, with a liability in between, have been
\* folded to the one asset 15/150 and a balance of 150.
C14_Witness ==
  /\ lastOp.op = "overview"
  /\ Entries(allProtocols) =
       << Entry("Curve", "0xA", "Dai", "DAI", 10, 100, "Asset"),
          Entry("Curve", "0xB", "USD Coin", "USDC", 3, 30, "Liability"),
          Entry("Curve", "0xA", "Dai", "DAI", 5, 50, "Asset") >>
  /\ \E n \in 1..Len(view) :
       /\ view[n].protocol = "Curve"
       /\ view[n].balanceUsd = Some(150)
       /\ view[n].assets =
            << [tokenAddress |-> "0xA", tokenName |-> "Dai", tokenSymbol |-> "DAI",
                amount |-> 15, usdValue |-> 150] >>

\* ---- C15
\* The addresses an adapter holds: the keys of its balances, and its history.
Referenced(protocol) ==
  Range(adapterData[protocol].balances) \cup Range(adapterData[protocol].history)

\* The protocols a filter selects among those defiAccounts looks at.
Selected(filter) == {p \in AccountProtocols : filter = {} \/ p \in filter}

\* C15: defiAccounts(filter) returns no address twice; it returns the addresses
\* that a selected protocol references and no other; the protocol list of an
\* account holds, once each, the selected protocols that reference its address.
C15_AccountsExact ==
  lastOp.op = "defiAccounts"
  => /\ \A m, n \in 1..Len(view) : view[m].address = view[n].address => m = n
     /\ {view[n].address : n \in 1..Len(view)}
          = UNION {Referenced(p) : p \in Selected(lastOp.arg)}
     /\ \A n \in 1..Len(view) :
          /\ \A i, j \in 1..Len(view[n].protocols) :
                view[n].protocols[i] = view[n].protocols[j] => i = j
          /\ Range(view[n].protocols)
               = {p \in Selected(lastOp.arg) : view[n].address \in Referenced(p)}

\* Witness: read for AAVE and MAKERDAO_DSR, which share an address, while
\* COMPOUND, left out by the filter, holds addresses too.
C15_Witness ==
  /\ lastOp.op = "defiAccounts"
  /\ lastOp.arg = {"AAVE", "MAKERDAO_DSR"}
  /\ adapterData["AAVE"] = Held(<< "0x1" >>, << "0x1" >>)
  /\ adapterData["MAKERDAO_DSR"] = Held(<< "0x2" >>, << "0x1" >>)
  /\ adapterData["COMPOUND"] = Held(<<>>, << "0x2", "0x2" >>)
  /\ Len(view) = 2
  /\ \E n \in 1..Len(view) :
       /\ view[n].address = "0x1"
       /\ Len(view[n].protocols) = 2

\* ---- C16
\* The place of a protocol in an order.
PlaceIn(order, protocol) == CHOOSE n \in 1..Len(order) : order[n] = protocol

\* The addresses in the order in which a fold of the selected protocols in
\* `order` meets them first.
RECURSIVE MetFrom(_, _, _)
MetFrom(order, filter, n) ==
  IF n > Len(order) THEN <<>>
  ELSE (IF order[n] \in Selected(filter)
          THEN adapterData[order[n]].balances \o adapterData[order[n]].history
          ELSE <<>>)
       \o MetFrom(order, filter, n + 1)

FirstSeen(order, filter) == uniqueStrings(MetFrom(order, filter, 1))

\* What has been read is the result of folding the protocols in `order`.
FoldedIn(order) ==
  lastOp.op = "defiAccounts"
  => /\ [n \in 1..Len(view) |-> view[n].address] = FirstSeen(order, lastOp.arg)
     /\ \A n \in 1..Len(view) :
          \A i, j \in 1..Len(view[n].protocols) :
             i < j => PlaceIn(order, view[n].protocols[i])
                        < PlaceIn(order, view[n].protocols[j])

\* C16 as claimed: the protocols are folded in the order AAVE, COMPOUND,
\* YEARN_VAULTS, YEARN_VAULTS_V2, MAKERDAO_DSR.
C16_FoldedAaveFirst ==
  FoldedIn(<< "AAVE", "COMPOUND", "YEARN_VAULTS", "YEARN_VAULTS_V2", "MAKERDAO_DSR" >>)

\* C16 as amended: the protocols are folded in the order MAKERDAO_DSR, AAVE,
\* COMPOUND, YEARN_VAULTS, YEARN_VAULTS_V2: every protocol list is ordered so,
\* and the accounts come in the order in which that fold meets their addresses.
C16_FoldedDsrFirst ==
  FoldedIn(<< "MAKERDAO_DSR", "AAVE", "COMPOUND", "YEARN_VAULTS", "YEARN_VAULTS_V2" >>)

\* Witness: MAKERDAO_DSR holds 0x2 and 0x1, AAVE holds 0x1; 0x2 comes first,
\* and the list of 0x1 starts with MAKERDAO_DSR, then AAVE.
C16_Witness ==
  /\ lastOp.op = "defiAccounts"
  /\ lastOp.arg = {}
  /\ adapterData["MAKERDAO_DSR"] = Held(<< "0x2" >>, << "0x1" >>)
  /\ adapterData["AAVE"] = Held(<< "0x1" >>, << "0x1" >>)
  /\ Len(view) = 2
  /\ view[1].address = "0x2"
  /\ view[2].address = "0x1"
  /\ Len(view[2].protocols) >= 2
  /\ view[2].protocols[1] = "MAKERDAO_DSR"
  /\ view[2].protocols[2] = "AAVE"

\* ---- C17
Loaded(section) == status[section] \in {"LOADED", "REFRESHING"}

\* The names of the summaries a summarizer makes, each with the sections that
\* have to be loaded for it.
Governing ==
  { <<AAVE, {"DEFI_AAVE_BALANCES"}>>,
    <<COMPOUND, {"DEFI_COMPOUND_BALANCES"}>>,
    <<YEARN_FINANCE_VAULTS, {"DEFI_YEARN_VAULTS_BALANCES"}>>,
    <<LIQUITY, {"DEFI_LIQUITY_BALANCES"}>>,
    <<MAKERDAO_DSR, {defaultSection}>>,
    <<MAKERDAO_VAULTS, {defaultSection}>>,
    <<YEARN_FINANCE_VAULTS_V2, {defaultSection, "DEFI_YEARN_VAULTS_V2_BALANCES"}>> }

\* No summary of a summarizer whose section is not loaded has been returned.
SummarizersGated ==
  lastOp.op = "overview"
  => \A g \in Governing :
       (\E section \in g[2] : ~Loaded(section))
       => \A n \in 1..Len(view) : view[n].protocol # g[1]

\* C17 as claimed: while DEFI_OVERVIEW is neither LOADED nor REFRESHING,
\* overview and defiAccounts return the empty list; and a summarizer whose own
\* section is not loaded contributes nothing.
C17_NoDataUnlessLoaded ==
  /\ (lastOp.op \in {"overview", "defiAccounts"} /\ ~Loaded(defaultSection))
     => view = <<>>
  /\ SummarizersGated

\* C17 as amended: only the summaries that a summarizer makes depend on a
\* status.  A summarizer whose section (for Yearn V2: or DEFI_OVERVIEW) is not
\* loaded contributes nothing; a protocol accumulated entry by entry has its
\* summary in overview as soon as it has an Asset entry, and defiAccounts
\* returns the addresses the selected adapters hold, whatever the statuses.
C17_OnlySummarizersGated ==
  /\ SummarizersGated
  /\ lastOp.op = "overview"
     => \A k \in 1..Len(Entries(allProtocols)) :
          LET entry == Entries(allProtocols)[k] IN
          (entry.protocol \notin SummarizerNames /\ entry.balanceType = "Asset")
          => \E n \in 1..Len(view) : view[n].protocol = entry.protocol
  /\ lastOp.op = "defiAccounts"
     => {view[n].address : n \in 1..Len(view)}
          = UNION {Referenced(p) : p \in Selected(lastOp.arg)}

\* Witness: nothing is loaded, Aave has a lending deposit and an entry, and
\* overview returns the summary of the generic protocol alone.
C17_Witness ==
  /\ lastOp.op = "overview"
  /\ allProtocols = PayloadMixed
  /\ status[defaultSection] = "NOT_LOADED"
  /\ status["DEFI_AAVE_BALANCES"] = "LOADING"
  /\ lending["AAVE"].totalLendingDeposit > 0
  /\ Len(view) = 1
  /\ view[1].protocol = "Curve"

\* ---- C18
\* The phases of the umbrella status, in the order a run goes through them.
Phase(s) ==
  CASE s = "NOT_LOADED" -> 0
    [] s \in {"LOADING", "REFRESHING"} -> 1
    [] s = "PARTIALLY_LOADED" -> 2
    [] s = "LOADED" -> 3

\* C18 as claimed: a fetchAllDefi run sets DEFI_OVERVIEW to LOADING (REFRESHING
\* on refresh), then to PARTIALLY_LOADED, then to LOADED; and whatever is
\* called meanwhile, DEFI_OVERVIEW moves back to an earlier phase only in the
\* step in which a new run passes the guard.
C18_UmbrellaMonotonic ==
  [][ /\ (lastOp'.op = "fetchAllDefi" /\ lastOp'.step = "call" /\ lastOp'.result = "pending")
         => status'[defaultSection] = IF lastOp'.refresh THEN "REFRESHING" ELSE "LOADING"
      /\ (lastOp'.op = "fetchAllDefi" /\ lastOp'.step = "adapters")
         => status'[defaultSection] = "PARTIALLY_LOADED"
      /\ (lastOp'.op = "fetchAllDefi" /\ lastOp'.step = "done")
         => status'[defaultSection] = "LOADED"
      /\ Phase(status'[defaultSection]) < Phase(status[defaultSection])
         => ( /\ lastOp'.op = "fetchAllDefi"
              /\ lastOp'.step = "call"
              /\ lastOp'.result = "pending" ) ]_vars

\* ---- C19
\* C19 as claimed: in the step in which a run sets DEFI_OVERVIEW to
\* PARTIALLY_LOADED and starts the adapter fetches, the overview fetch is over:
\* none is suspended and DEFI_BALANCES is LOADED, also when a fetchDefiBalances
\* of its own was suspended when the run began.
C19_BalancesLoadedFirst ==
  [][ (lastOp'.op = "fetchAllDefi" /\ lastOp'.step = "adapters")
      => ( /\ status'["DEFI_BALANCES"] = "LOADED"
           /\ balRuns' = EmptyBag ) ]_vars

\* ---- C20
\* DEFI_LENDING_HISTORY is REFRESHING and no resetDB is there to set it LOADED.
LeftRefreshing ==
  status[premiumSection] = "REFRESHING" /\ resetRuns = EmptyBag

\* C20: when a history fetch of resetDB rejects, resetDB rejects and leaves
\* DEFI_LENDING_HISTORY REFRESHING; from then on the section stays REFRESHING
\* and every resetDB call returns at once, starting nothing.
C20_RejectedResetShutsGate ==
  [][ /\ (lastOp'.op = "resetDB" /\ lastOp'.step = "done" /\ lastOp'.rejected > 0)
         => ( /\ lastOp'.result = "rejected"
              /\ status' = status
              /\ LeftRefreshing' )
      /\ LeftRefreshing
         => ( /\ LeftRefreshing'
              /\ lastOp'.op = "resetDB"
                 => ( /\ lastOp'.step = "call"
                      /\ lastOp'.result = "resolved"
                      /\ calls' = <<>> ) ) ]_vars

\* Witness: with premium set and no resetDB suspended, a resetDB call for the
\* three protocols has returned at once, the section still REFRESHING.
C20_Witness ==
  /\ lastOp.op = "resetDB" /\ lastOp.step = "call" /\ lastOp.result = "resolved"
  /\ lastOp.arg = {"YEARN_VAULTS", "YEARN_VAULTS_V2", "AAVE"}
  /\ premium
  /\ LeftRefreshing
====
